---------------------------- MODULE Spec2Model ----------------------------
(***************************************************************************)
(* LocalBundleClient (codalab/client/local_bundle_client.py) as a state    *)
(* machine.  The store behind the client (self.model), the spec resolver   *)
(* (codalab.lib.canonicalize) and the permission engine                    *)
(* (codalab.objects.permission) are shared by all clients; every call of   *)
(* a client method is a sequence of store interactions, and the steps of   *)
(* two clients interleave between store interactions.                      *)
(***************************************************************************)
EXTENDS Integers, Sequences, FiniteSets, Bags, TLC

(***************************************************************************)
(* Bounds of the model.  Two clients, each in at most one call: a second   *)
(* call of the same client is the other client's call made after it.       *)
(***************************************************************************)
\* bundles ever created (uuids are never reused)
MaxBundles == 3
\* worksheets ever created
MaxWorksheets == 3
\* groups ever created
MaxGroups == 2

(***************************************************************************)
(* Identities, uuids, names.                                               *)
(***************************************************************************)
Clients == {"c1", "c2"}
\* auth_handler.current_user() is None
NoUser == "nobody"
Users == {"u1", "u2"}
\* a username get_users does not know
NoSuchUser == "ghost"
None == "None"

AllBundleUuids == <<"b1", "b2", "b3", "b4", "b5", "b6">>
AllWorksheetUuids == <<"w1", "w2", "w3", "w4", "w5">>
AllGroupUuids == <<"g1", "g2", "g3", "g4">>
BundleUuidSpace == {AllBundleUuids[i] : i \in 1..(MaxBundles + 1)}
WorksheetUuidSpace == {AllWorksheetUuids[i] : i \in 1..(MaxWorksheets + 1)}
GroupUuidSpace == {AllGroupUuids[i] : i \in 1..(MaxGroups + 1)}
BundleNames == {"a", "b"}
DEFAULT_WORKSHEET_NAME == "home"
WorksheetNames == {DEFAULT_WORKSHEET_NAME, "ws"}

\* permission levels
GROUP_OBJECT_PERMISSION_NONE == 0
GROUP_OBJECT_PERMISSION_READ == 1
GROUP_OBJECT_PERMISSION_ALL == 2

VARIABLES
  bundles,        \* uuid -> [name, deps]               (bundle + dependency rows)
  worksheets,     \* uuid -> [name, owner, items, last_item_id]
  groups,         \* uuid -> [owner]
  members,        \* bag of [user, group, is_admin]     (user_group rows)
  perms,          \* bag of [group, ws, level]          (group_object_permission rows)
  nbundles,       \* bundles ever created
  nworksheets,    \* worksheets ever created
  ngroups,        \* groups ever created
  cl,             \* client -> the call it is in (its arguments, locals, outcome)
  deleted         \* history: bundles removed by a delete_bundle without force

vars == <<bundles, worksheets, groups, members, perms, nbundles, nworksheets,
          ngroups, cl, deleted>>
store == <<bundles, worksheets, groups, members, perms, nbundles, nworksheets,
           ngroups>>

(***************************************************************************)
(* Small helpers.                                                          *)
(***************************************************************************)
Range(s) == {s[i] : i \in DOMAIN s}
Remove(f, ks) == [k \in (DOMAIN f) \ ks |-> f[k]]
MaxOf(S) == CHOOSE x \in S : \A y \in S : y <= x
Item(b, v, t) == [b |-> b, v |-> v, t |-> t]


RECURSIVE SumCopies(_, _)
SumCopies(B, S) ==
  IF S = {} THEN 0
  ELSE LET e == CHOOSE x \in S : TRUE IN B[e] + SumCopies(B, S \ {e})
\* the rows of table B, each replaced by F(row)
BagMap(B, F(_)) ==
  [y \in {F(e) : e \in DOMAIN B} |-> SumCopies(B, {e \in DOMAIN B : F(e) = y})]
\* the rows of table B that satisfy P
BagSelect(B, P(_)) == [e \in {x \in DOMAIN B : P(x)} |-> B[e]]
BagAdd(B, row) == B (+) SetToBag({row})

(***************************************************************************)
(* The identifier resolver (codalab.lib.canonicalize).                     *)
(***************************************************************************)
\* canonicalize.get_worksheet_uuid: an exact uuid, else a unique name; None
\* stands for the UsageError it raises (no match, or an ambiguous name)
CanonWorksheetUuid(spec) ==
  IF spec \in DOMAIN worksheets THEN spec
  ELSE LET m == {w \in DOMAIN worksheets : worksheets[w].name = spec}
       IN IF Cardinality(m) = 1 THEN CHOOSE w \in m : TRUE ELSE None

\* canonicalize.get_bundle_uuid: a spec that is a uuid is returned as it is,
\* without a store lookup; a name must match exactly one bundle
CanonBundleUuid(spec) ==
  IF spec \in BundleUuidSpace THEN spec
  ELSE LET m == {b \in DOMAIN bundles : bundles[b].name = spec}
       IN IF Cardinality(m) = 1 THEN CHOOSE b \in m : TRUE ELSE None

\* permission.unique_group: an exact uuid
UniqueGroup(spec) == IF spec \in DOMAIN groups THEN spec ELSE None

(***************************************************************************)
(* The permission engine (codalab.objects.permission).                     *)
(***************************************************************************)
HasRow(user, g) == \E r \in BagToSet(members) : r.user = user /\ r.group = g
IsAdminRow(user, g) ==
  \E r \in BagToSet(members) : r.user = user /\ r.group = g /\ r.is_admin
\* the groups the Permission Engine counts the identity in
IsMember(user, g) ==
  g \in DOMAIN groups /\ (groups[g].owner = user \/ HasRow(user, g))
\* the rows of the (group, worksheet) pair
PermRows(g, w) == BagSelect(perms, LAMBDA r : r.group = g /\ r.ws = w)
\* the level the group's stored rows confer on the worksheet
GroupLevel(g, w) ==
  LET ls == {r.level : r \in DOMAIN PermRows(g, w)}
  IN IF ls = {} THEN GROUP_OBJECT_PERMISSION_NONE ELSE MaxOf(ls)
InGroupWithLevel(user, w, level) ==
  \E r \in BagToSet(perms) : r.ws = w /\ r.level >= level /\ IsMember(user, r.group)
EffectiveLevel(user, w) ==
  IF worksheets[w].owner = user THEN GROUP_OBJECT_PERMISSION_ALL
  ELSE IF InGroupWithLevel(user, w, GROUP_OBJECT_PERMISSION_ALL)
    THEN GROUP_OBJECT_PERMISSION_ALL
  ELSE IF InGroupWithLevel(user, w, GROUP_OBJECT_PERMISSION_READ)
    THEN GROUP_OBJECT_PERMISSION_READ
  ELSE GROUP_OBJECT_PERMISSION_NONE
\* check_has_full_permission does not raise
HasFullPermission(user, w) == EffectiveLevel(user, w) >= GROUP_OBJECT_PERMISSION_ALL
\* permission.unique_group_managed_by: the group, if the user owns or co-owns it
UniqueGroupManagedBy(spec, user) ==
  IF spec \in DOMAIN groups /\ (groups[spec].owner = user \/ IsAdminRow(user, spec))
  THEN spec ELSE None
\* parse_permission: the level a permission name stands for, -1 for no level
ParsePermission(name) ==
  CASE name = "none" -> GROUP_OBJECT_PERMISSION_NONE
    [] name = "read" -> GROUP_OBJECT_PERMISSION_READ
    [] name = "all" -> GROUP_OBJECT_PERMISSION_ALL
    [] OTHER -> -1

(***************************************************************************)
(* The store (self.model): each operator is one atomic store interaction.  *)
(***************************************************************************)
\* model.get_children
GetChildren(uuid) == {b \in DOMAIN bundles : uuid \in bundles[b].deps}
\* model.get_child_worksheets
GetChildWorksheets(uuid) ==
  {w \in DOMAIN worksheets : \E i \in DOMAIN worksheets[w].items :
                                worksheets[w].items[i].b = uuid}
RECURSIVE Descendants(_, _)
Descendants(S, n) ==
  IF n = 0 THEN S
  ELSE Descendants(S \cup {b \in DOMAIN bundles : bundles[b].deps \cap S # {}}, n - 1)
\* model.delete_bundle_tree: the bundles left; without force it refuses a bundle
\* with dependents, with force it removes the bundle and all its descendants
DeleteTreeRefused(uuid, force) ==
  ~force /\ (GetChildren(uuid) # {} \/ GetChildWorksheets(uuid) # {})
DeleteBundleTree(uuid, force) ==
  IF DeleteTreeRefused(uuid, force) THEN bundles
  ELSE Remove(bundles, Descendants({uuid}, Cardinality(DOMAIN bundles)))
\* model.save_bundle: the row of the uuid holds the bundle
SaveBundle(uuid, name, deps) == (uuid :> [name |-> name, deps |-> deps]) @@ bundles
\* model.update_bundle with {'metadata': metadata}
UpdateBundle(uuid, name) ==
  IF uuid \in DOMAIN bundles THEN [bundles EXCEPT ![uuid].name = name] ELSE bundles
\* model.save_worksheet
SaveWorksheet(uuid, name, owner) ==
  worksheets @@ (uuid :> [name |-> name, owner |-> owner, items |-> << >>,
                          last_item_id |-> 0])
\* the optimistic-concurrency version of a worksheet
Stamp(w) == <<worksheets[w].last_item_id, Len(worksheets[w].items)>>
\* model.add_worksheet_item
AddWorksheetItem(w, item) ==
  IF w \in DOMAIN worksheets
  THEN [worksheets EXCEPT ![w].items = Append(@, item),
                          ![w].last_item_id = @ + 1]
  ELSE worksheets
\* model.update_worksheet raises: the stamp is not the stored one
UpdateWorksheetRefused(w, last_item_id, length) ==
  w \notin DOMAIN worksheets \/ Stamp(w) # <<last_item_id, length>>
\* model.update_worksheet that replaces the items and keeps last_item_id
UpdateWorksheetSameId(w, last_item_id, length, new_items) ==
  IF UpdateWorksheetRefused(w, last_item_id, length) THEN worksheets
  ELSE [worksheets EXCEPT ![w].items = new_items]
\* model.update_worksheet
UpdateWorksheet(w, last_item_id, length, new_items) ==
  IF UpdateWorksheetRefused(w, last_item_id, length) THEN worksheets
  ELSE [worksheets EXCEPT ![w].items = new_items, ![w].last_item_id = @ + 1]
\* model.rename_worksheet
RenameWorksheet(w, name) ==
  IF w \in DOMAIN worksheets THEN [worksheets EXCEPT ![w].name = name] ELSE worksheets
\* model.delete_worksheet
DeleteWorksheet(w) == Remove(worksheets, {w})
\* model.create_group
CreateGroup(uuid, owner) == groups @@ (uuid :> [owner |-> owner])
\* model.delete_group: the group goes, and its membership rows with it
DeleteGroup(g) == Remove(groups, {g})
DeleteGroupMembers(g) == BagSelect(members, LAMBDA r : r.group # g)
\* model.batch_get_user_in_group(user_id, group_uuid): the number of rows
CountUserInGroup(user, g) ==
  BagCardinality(BagSelect(members, LAMBDA r : r.user = user /\ r.group = g))
\* model.add_user_in_group
AddUserInGroup(user, g, is_admin) ==
  BagAdd(members, [user |-> user, group |-> g, is_admin |-> is_admin])
\* model.update_user_in_group
UpdateUserInGroup(user, g, is_admin) ==
  BagMap(members, LAMBDA r : IF r.user = user /\ r.group = g
                             THEN [r EXCEPT !.is_admin = is_admin] ELSE r)
\* model.delete_user_in_group
DeleteUserInGroup(user, g) ==
  BagSelect(members, LAMBDA r : ~(r.user = user /\ r.group = g))
\* model.get_permission(group_uuid, worksheet_uuid): the number of rows
CountPermission(g, w) == BagCardinality(PermRows(g, w))
\* model.add_permission
AddPermission(g, w, level) == BagAdd(perms, [group |-> g, ws |-> w, level |-> level])
\* model.update_permission
UpdatePermission(g, w, level) ==
  BagMap(perms, LAMBDA r : IF r.group = g /\ r.ws = w
                           THEN [r EXCEPT !.level = level] ELSE r)
\* model.delete_permission
DeletePermission(g, w) == BagSelect(perms, LAMBDA r : ~(r.group = g /\ r.ws = w))

(***************************************************************************)
(* A client's call: arguments, locals, outcome.                            *)
(***************************************************************************)
Idle ==
  [pc |-> "idle", op |-> None, user |-> NoUser,
   \* arguments
   ws |-> None, bs |-> None, gs |-> None, name |-> None, targets |-> {},
   force |-> FALSE, items |-> << >>, stamp |-> <<0, 0>>, pname |-> None,
   who |-> None, is_admin |-> FALSE, existing |-> FALSE, legal |-> TRUE,
   bundle_type |-> None, metadata |-> {},
   \* locals
   wuuid |-> None, buuid |-> None, guuid |-> None, gowner |-> None,
   nold |-> 0, mflag |-> FALSE, canon |-> << >>, level |-> 0,
   \* outcome: what the call returned or raised, what the error names
   result |-> None, named |-> {}, operation |-> None,
   \* history: what this call has changed in the store, the dependents the
   \* bundle had when delete_bundle raised, whether the stamp submitted was
   \* the stored one when the call began, the bundles deleted before the call
   \* began, and what held of the acting user when check_has_full_permission
   \* ran
   \* of get_worksheet_info: the items of the worksheet read by
   \* model.get_worksheet, and the items returned
   worksheet_items |-> << >>, info_items |-> << >>,
   wrote |-> {}, dependents |-> {}, fresh |-> FALSE, deleted_before |-> {}, checked |-> FALSE, was_owner |-> FALSE, in_all_group |-> FALSE]

Raise(r, error) == [r EXCEPT !.pc = "done", !.result = error]
Return(r) == [r EXCEPT !.pc = "done", !.result = "ok"]
Wrote(r, tag, changed) == IF changed THEN [r EXCEPT !.wrote = @ \cup {tag}] ELSE r

\* a client enters a method
Call(c, r) ==
  /\ cl[c].pc = "idle"
  /\ cl' = [cl EXCEPT ![c] = [r EXCEPT !.deleted_before = deleted]]
  /\ UNCHANGED <<store, deleted>>

\* a client's step that only reads the store
Read(c, r) ==
  /\ cl' = [cl EXCEPT ![c] = r]
  /\ UNCHANGED <<store, deleted>>

\* the decorator: the wrapped method runs only for an authenticated user
authentication_required(user, r) ==
  IF user = NoUser THEN Raise(r, "AuthorizationError") ELSE r

(***************************************************************************)
(* The inputs the calls are given.                                         *)
(***************************************************************************)
AnyUser == Users \cup {NoUser}
WorksheetSpecs == {"w1", "w2", DEFAULT_WORKSHEET_NAME}
BundleSpecs == {"b2", "b3", "a"}
GroupSpecs == {"g1", "g2"}
\* the users get_users knows: the ones who call, and one who is only named
KnownUsers == Users \cup {"u3"}
Usernames == KnownUsers \cup {NoSuchUser}
PermissionNames == {"none", "read", "all", "bogus"}
\* bundle types, and the ones upload_bundle accepts
BundleTypes == {"dataset", "run"}
UPLOADED_TYPES == {"dataset"}
\* the metadata keys a user may set, and the metadata a call is given
LegalKeys == {"name", "description"}
MetadataInputs == {{"name"}, {"name", "created"}}
\* (bundle_spec, value, type) items a client submits; no bundle is named "x"
TextItem == Item(None, "note", None)
NewItemLists ==
  { << >>,
    <<TextItem>>,
    <<Item("a", None, None), Item("b3", "mine", "bundle")>>,
    <<Item("x", None, "bundle"), Item("x", "mine", "bundle")>> }
\* the version stamps a client submits for a worksheet: the stored one, and
\* stamps that are off in one component
StampsFor(w) ==
  IF w \notin DOMAIN worksheets THEN {<<0, 0>>}
  ELSE {Stamp(w), <<Stamp(w)[1], Stamp(w)[2] + 1>>}
       \cup {<<Stamp(w)[1] - 1, Stamp(w)[2]>> : x \in {y \in {0} : Stamp(w)[1] > 0}}

(***************************************************************************)
(* get_worksheet_uuid and the permission gate, shared by the worksheet     *)
(* methods.                                                                *)
(***************************************************************************)
\* get_worksheet_uuid: canonicalize; a UsageError on the default name leads
\* to new_worksheet
AfterResolve(op) == IF op = "get_worksheet_info" THEN "check_read" ELSE "check"

GetWorksheetUuid(c) ==
  LET r == cl[c]
      uuid == CanonWorksheetUuid(r.ws)
  IN /\ r.pc = "get_worksheet_uuid"
     /\ Read(c, IF uuid # None THEN [r EXCEPT !.pc = AfterResolve(r.op), !.wuuid = uuid]
                ELSE IF r.ws = DEFAULT_WORKSHEET_NAME
                  THEN [r EXCEPT !.pc = "new_default_worksheet"]
                ELSE Raise(r, "UsageError"))

\* new_worksheet, called by get_worksheet_uuid for the default worksheet
NewDefaultWorksheet(c) ==
  LET r == cl[c]
      uuid == AllWorksheetUuids[nworksheets + 1]
  IN /\ r.pc = "new_default_worksheet"
     /\ IF r.user = NoUser
        THEN Read(c, Raise(r, "AuthorizationError"))
        ELSE /\ nworksheets < MaxWorksheets
             /\ worksheets' = SaveWorksheet(uuid, r.ws, r.user)
             /\ nworksheets' = nworksheets + 1
             /\ cl' = [cl EXCEPT ![c] =
                         Wrote([r EXCEPT !.pc = AfterResolve(r.op), !.wuuid = uuid],
                               "default_worksheet", TRUE)]
             /\ UNCHANGED <<bundles, groups, members, perms, nbundles, ngroups, deleted>>

\* where a method goes on after check_has_full_permission
AfterCheck(op) ==
  CASE op \in {"add_worksheet_item", "upload_bundle", "derive_bundle"} -> "get_bundle"
    [] op = "update_worksheet" -> "update_worksheet"
    [] op = "rename_worksheet" -> "rename_worksheet"
    [] op = "delete_worksheet" -> "delete_worksheet"
    [] op = "set_worksheet_perm" -> "get_permission"

\* a gate that lets every user through
CheckNothing(r) == [r EXCEPT !.pc = AfterCheck(r.op)]

\* the outcome of the gate for a worksheet that exists
CheckHasFullPermission(r) ==
  IF HasFullPermission(r.user, r.wuuid)
  THEN [r EXCEPT !.pc = AfterCheck(r.op)]
  ELSE Raise(r, "AuthorizationError")

\* model.get_worksheet, then check_has_full_permission
Check(c) ==
  LET r == cl[c]
      w == r.wuuid
      seen == [r EXCEPT !.checked = TRUE,
                        !.was_owner = worksheets[w].owner = r.user,
                        !.in_all_group =
                          InGroupWithLevel(r.user, w, GROUP_OBJECT_PERMISSION_ALL)]
  IN /\ r.pc = "check"
     /\ Read(c, IF w \notin DOMAIN worksheets THEN Raise(r, "UsageError")
                ELSE CheckHasFullPermission(seen))

(***************************************************************************)
(* Worksheet methods.                                                      *)
(***************************************************************************)
\* get_worksheet_info; it is not decorated with authentication_required
get_worksheet_info(c) ==
  \E user \in AnyUser, ws \in WorksheetSpecs :
    Call(c, [Idle EXCEPT !.pc = "get_worksheet_uuid", !.op = "get_worksheet_info",
                         !.user = user, !.ws = ws])

\* check_has_read_permission does not raise
HasReadPermission(user, w) == EffectiveLevel(user, w) >= GROUP_OBJECT_PERMISSION_READ

\* model.get_worksheet, then check_has_read_permission and get_info_dict
CheckRead(c) ==
  LET r == cl[c]
      w == r.wuuid
  IN /\ r.pc = "check_read"
     /\ Read(c, IF w \notin DOMAIN worksheets THEN Raise(r, "UsageError")
                ELSE IF ~HasReadPermission(r.user, w)
                  THEN Raise(r, "AuthorizationError")
                ELSE [r EXCEPT !.pc = "batch_get_bundles",
                               !.worksheet_items = worksheets[w].items])

\* _bundle_to_bundle_info: the dict of a stored bundle
BundleInfo(b) ==
  [uuid |-> b, metadata |-> bundles[b].name, dependencies |-> bundles[b].deps]
\* the dict that stands for a bundle that is not stored
Orphan(b) == [uuid |-> b]
\* None in the place of the bundle info: the dict without a key
NoBundle == [key \in {} |-> None]
\* an item of the result: the bundle info and the type (the value goes through
\* worksheet_util.expand_worksheet_item_info and is left out)
InfoItem(bundle_info, type) == [bundle_info |-> bundle_info, t |-> type]

\* get_worksheet_info that raises when a listed bundle is not stored
BatchGetBundlesStrict(c) ==
  LET r == cl[c]
      uuids == {r.worksheet_items[i].b : i \in DOMAIN r.worksheet_items} \ {None}
      bundle_dict == [b \in uuids \cap DOMAIN bundles |-> BundleInfo(b)]
      info_items == [i \in DOMAIN r.worksheet_items |->
                       LET item == r.worksheet_items[i]
                       IN InfoItem(IF item.b = None THEN NoBundle
                                   ELSE IF item.b \in DOMAIN bundle_dict
                                     THEN bundle_dict[item.b]
                                   ELSE Orphan(item.b),
                                   item.t)]
  IN /\ r.pc = "batch_get_bundles"
     /\ Read(c, IF uuids \subseteq DOMAIN bundles
                THEN Return([r EXCEPT !.info_items = info_items])
                ELSE Raise(r, "UsageError"))

\* model.batch_get_bundles of get_worksheet_info, and the items of the result
BatchGetBundles(c) ==
  LET r == cl[c]
      uuids == {r.worksheet_items[i].b : i \in DOMAIN r.worksheet_items} \ {None}
      bundle_dict == [b \in uuids \cap DOMAIN bundles |-> BundleInfo(b)]
      info_items == [i \in DOMAIN r.worksheet_items |->
                       LET item == r.worksheet_items[i]
                       IN InfoItem(IF item.b = None THEN NoBundle
                                   ELSE IF item.b \in DOMAIN bundle_dict
                                     THEN bundle_dict[item.b]
                                   ELSE Orphan(item.b),
                                   item.t)]
  IN /\ r.pc = "batch_get_bundles"
     /\ Read(c, Return([r EXCEPT !.info_items = info_items]))

\* new_worksheet
new_worksheet(c) ==
  \E user \in AnyUser, name \in WorksheetNames :
    Call(c, authentication_required(user,
      [Idle EXCEPT !.pc = "save_worksheet", !.op = "new_worksheet",
                   !.user = user, !.name = name]))

SaveNewWorksheet(c) ==
  LET r == cl[c]
      uuid == AllWorksheetUuids[nworksheets + 1]
  IN /\ r.pc = "save_worksheet"
     /\ nworksheets < MaxWorksheets
     /\ worksheets' = SaveWorksheet(uuid, r.name, r.user)
     /\ nworksheets' = nworksheets + 1
     /\ cl' = [cl EXCEPT ![c] = Wrote(Return([r EXCEPT !.wuuid = uuid]),
                                      "worksheet", TRUE)]
     /\ UNCHANGED <<bundles, groups, members, perms, nbundles, ngroups, deleted>>

\* add_worksheet_item
add_worksheet_item(c) ==
  \E user \in AnyUser, ws \in WorksheetSpecs, bs \in BundleSpecs :
    Call(c, authentication_required(user,
      [Idle EXCEPT !.pc = "get_worksheet_uuid", !.op = "add_worksheet_item",
                   !.user = user, !.ws = ws, !.bs = bs]))

\* get_bundle_uuid and model.get_bundle of add_worksheet_item
GetBundle(c) ==
  LET r == cl[c]
      uuid == CanonBundleUuid(r.bs)
  IN /\ r.pc = "get_bundle"
     /\ Read(c, IF uuid = None \/ uuid \notin DOMAIN bundles
                THEN Raise(r, "UsageError")
                ELSE [r EXCEPT !.pc = "add_item", !.buuid = uuid])

\* add_worksheet_item that leaves the new item as the only item
AddItemReplacing(c) ==
  LET r == cl[c]
      item == Item(r.buuid, r.bs, "bundle")
  IN /\ r.pc = "add_item"
     /\ worksheets' = IF r.wuuid \in DOMAIN worksheets
                      THEN [worksheets EXCEPT ![r.wuuid].items = <<item>>,
                                              ![r.wuuid].last_item_id = @ + 1]
                      ELSE worksheets
     /\ cl' = [cl EXCEPT ![c] = Wrote(Return(r), "items", worksheets' # worksheets)]
     /\ UNCHANGED <<bundles, groups, members, perms, nbundles, nworksheets,
                    ngroups, deleted>>

\* model.add_worksheet_item of add_worksheet_item
AddItem(c) ==
  LET r == cl[c]
      item == Item(r.buuid, r.bs, "bundle")
  IN /\ r.pc = "add_item"
     /\ worksheets' = AddWorksheetItem(r.wuuid, item)
     /\ cl' = [cl EXCEPT ![c] = Wrote(Return(r), "items", worksheets' # worksheets)]
     /\ UNCHANGED <<bundles, groups, members, perms, nbundles, nworksheets,
                    ngroups, deleted>>

\* expand_worksheet_item
OrEmpty(x) == IF x = None THEN "" ELSE x
ExpandWorksheetItem(item) ==
  IF item.b = None THEN Item(None, OrEmpty(item.v), OrEmpty(item.t))
  ELSE LET uuid == CanonBundleUuid(item.b)
       IN IF uuid = None
          THEN Item(item.b, IF item.v = None THEN "not found" ELSE item.v, "")
          ELSE IF uuid # item.b /\ item.v = None
            THEN Item(uuid, item.b, OrEmpty(item.t))
          ELSE Item(uuid, OrEmpty(item.v), OrEmpty(item.t))

\* update_worksheet
update_worksheet(c) ==
  \E user \in AnyUser, w \in {"w1"}, new_items \in NewItemLists :
    \E stamp \in StampsFor(w) :
      Call(c, authentication_required(user,
        [Idle EXCEPT !.pc = "expand", !.op = "update_worksheet", !.user = user,
                     !.wuuid = w, !.stamp = stamp, !.items = new_items,
                     !.fresh = (w \in DOMAIN worksheets /\ stamp = Stamp(w))]))

\* the canonical items of update_worksheet
Expand(c) ==
  LET r == cl[c]
  IN /\ r.pc = "expand"
     /\ Read(c, [r EXCEPT !.pc = "check",
                          !.canon = [i \in DOMAIN r.items |->
                                       ExpandWorksheetItem(r.items[i])]])

\* update_worksheet that hands the store the stamp the store holds, not the
\* one in worksheet_info
UpdateItemsStoredStamp(c) ==
  LET r == cl[c]
      w == r.wuuid
  IN /\ r.pc = "update_worksheet"
     /\ worksheets' = IF w \in DOMAIN worksheets
                      THEN UpdateWorksheet(w, Stamp(w)[1], Stamp(w)[2], r.canon)
                      ELSE worksheets
     /\ cl' = [cl EXCEPT ![c] =
                 IF w \notin DOMAIN worksheets THEN Raise(r, "UsageError")
                 ELSE Wrote(Return(r), "items", TRUE)]
     /\ UNCHANGED <<bundles, groups, members, perms, nbundles, nworksheets,
                    ngroups, deleted>>

\* update_worksheet that swallows the store's UsageError
UpdateItemsSwallowed(c) ==
  LET r == cl[c]
      last_item_id == r.stamp[1]
      length == r.stamp[2]
  IN /\ r.pc = "update_worksheet"
     /\ worksheets' = UpdateWorksheet(r.wuuid, last_item_id, length, r.canon)
     /\ cl' = [cl EXCEPT ![c] = Wrote(Return(r), "items", worksheets' # worksheets)]
     /\ UNCHANGED <<bundles, groups, members, perms, nbundles, nworksheets,
                    ngroups, deleted>>

\* model.update_worksheet of update_worksheet, and the rewrapped UsageError
UpdateItems(c) ==
  LET r == cl[c]
      last_item_id == r.stamp[1]
      length == r.stamp[2]
  IN /\ r.pc = "update_worksheet"
     /\ worksheets' = UpdateWorksheet(r.wuuid, last_item_id, length, r.canon)
     /\ cl' = [cl EXCEPT ![c] =
                 IF UpdateWorksheetRefused(r.wuuid, last_item_id, length)
                 THEN Raise(r, "UsageError")
                 ELSE Wrote(Return(r), "items", TRUE)]
     /\ UNCHANGED <<bundles, groups, members, perms, nbundles, nworksheets,
                    ngroups, deleted>>

\* rename_worksheet
rename_worksheet(c) ==
  \E user \in AnyUser, ws \in WorksheetSpecs, name \in WorksheetNames :
    Call(c, authentication_required(user,
      [Idle EXCEPT !.pc = "get_worksheet_uuid", !.op = "rename_worksheet",
                   !.user = user, !.ws = ws, !.name = name]))

RenameWrite(c) ==
  LET r == cl[c]
  IN /\ r.pc = "rename_worksheet"
     /\ worksheets' = RenameWorksheet(r.wuuid, r.name)
     /\ cl' = [cl EXCEPT ![c] = Wrote(Return(r), "name", worksheets' # worksheets)]
     /\ UNCHANGED <<bundles, groups, members, perms, nbundles, nworksheets,
                    ngroups, deleted>>

\* delete_worksheet
delete_worksheet(c) ==
  \E user \in AnyUser, ws \in WorksheetSpecs :
    Call(c, authentication_required(user,
      [Idle EXCEPT !.pc = "get_worksheet_uuid", !.op = "delete_worksheet",
                   !.user = user, !.ws = ws]))

DeleteWrite(c) ==
  LET r == cl[c]
  IN /\ r.pc = "delete_worksheet"
     /\ worksheets' = DeleteWorksheet(r.wuuid)
     /\ cl' = [cl EXCEPT ![c] = Wrote(Return(r), "deleted", worksheets' # worksheets)]
     /\ UNCHANGED <<bundles, groups, members, perms, nbundles, nworksheets,
                    ngroups, deleted>>

(***************************************************************************)
(* set_worksheet_perm.                                                     *)
(***************************************************************************)
set_worksheet_perm(c) ==
  \E user \in AnyUser, ws \in {"w1", DEFAULT_WORKSHEET_NAME},
     pname \in PermissionNames, gs \in GroupSpecs :
    Call(c, authentication_required(user,
      [Idle EXCEPT !.pc = "get_worksheet_uuid", !.op = "set_worksheet_perm",
                   !.user = user, !.ws = ws, !.pname = pname, !.gs = gs]))

\* parse_permission, unique_group and model.get_permission
GetPermission(c) ==
  LET r == cl[c]
      new_permission == ParsePermission(r.pname)
      g == UniqueGroup(r.gs)
      old == CountPermission(g, r.wuuid)
      read == [r EXCEPT !.level = new_permission, !.guuid = g, !.nold = old]
  IN /\ r.pc = "get_permission"
     /\ Read(c, IF new_permission < 0 \/ g = None THEN Raise(r, "UsageError")
                ELSE IF new_permission = GROUP_OBJECT_PERMISSION_NONE /\ old = 0
                  THEN Return(read)
                ELSE [read EXCEPT !.pc = "write_permission"])

\* set_worksheet_perm that stores level NONE in the row instead of deleting it
WritePermissionStoresNone(r) ==
  IF r.nold >= 1
  THEN UpdatePermission(r.guuid, r.wuuid, r.level)
  ELSE BagAdd(perms, [group |-> r.guuid, ws |-> r.wuuid, level |-> r.level])

\* the rows set_worksheet_perm leaves, given the rows it read
WritePermission(r) ==
  IF r.level = GROUP_OBJECT_PERMISSION_NONE
  THEN DeletePermission(r.guuid, r.wuuid)
  ELSE IF r.nold = 1
    THEN UpdatePermission(r.guuid, r.wuuid, r.level)
  ELSE LET kept == IF r.nold > 0 THEN DeletePermission(r.guuid, r.wuuid) ELSE perms
       IN BagAdd(kept, [group |-> r.guuid, ws |-> r.wuuid, level |-> r.level])

\* model.delete_permission / update_permission / add_permission
SetPermission(c) ==
  LET r == cl[c]
  IN /\ r.pc = "write_permission"
     /\ perms' = WritePermission(r)
     /\ cl' = [cl EXCEPT ![c] = Wrote(Return(r), "perms", perms' # perms)]
     /\ UNCHANGED <<bundles, worksheets, groups, members, nbundles, nworksheets,
                    ngroups, deleted>>

(***************************************************************************)
(* Bundle methods.                                                         *)
(***************************************************************************)
\* the call of self.add_worksheet_item that ends upload_bundle and
\* derive_bundle when a worksheet is given
ThenAddWorksheetItem(r) ==
  IF r.ws = None THEN Return(r)
  ELSE authentication_required(r.user,
         [r EXCEPT !.pc = "get_worksheet_uuid", !.bs = r.buuid])

\* validate_user_metadata: the illegal keys; it raises when there are any
validate_user_metadata(metadata) == metadata \ LegalKeys

\* upload_bundle that does not validate the metadata
upload_bundleUnvalidated(c) ==
  \E user \in AnyUser, uuid \in {None, "b1"}, bundle_type \in BundleTypes,
     metadata \in MetadataInputs, ws \in {None, "w1", "w2", DEFAULT_WORKSHEET_NAME} :
    LET illegal_keys == validate_user_metadata(metadata)
        existing == uuid # None
        r == [Idle EXCEPT !.pc = "upload", !.op = "upload_bundle", !.user = user,
                          !.ws = ws, !.name = "a", !.existing = existing,
                          !.bs = uuid,
                          !.bundle_type = bundle_type, !.metadata = metadata,
                          !.legal = (illegal_keys = {})]
    IN /\ (bundle_type \in UPLOADED_TYPES \/ ~existing)
       /\ (bundle_type \in UPLOADED_TYPES /\ illegal_keys = {}) \/ ws = None
       /\ Call(c, IF ~existing /\ bundle_type \notin UPLOADED_TYPES
                  THEN Raise(r, "PreconditionViolation")
                  ELSE r)

\* upload_bundle: construct_args may carry the uuid of the bundle, and then the
\* precondition on bundle_type and validate_user_metadata are skipped
upload_bundle(c) ==
  \E user \in AnyUser, uuid \in {None, "b1"}, bundle_type \in BundleTypes,
     metadata \in MetadataInputs, ws \in {None, "w1", "w2", DEFAULT_WORKSHEET_NAME} :
    LET illegal_keys == validate_user_metadata(metadata)
        existing == uuid # None
        r == [Idle EXCEPT !.pc = "upload", !.op = "upload_bundle", !.user = user,
                          !.ws = ws, !.name = "a", !.existing = existing,
                          !.bs = uuid,
                          !.bundle_type = bundle_type, !.metadata = metadata,
                          !.legal = (illegal_keys = {})]
    IN /\ (bundle_type \in UPLOADED_TYPES \/ ~existing)
       /\ (bundle_type \in UPLOADED_TYPES /\ illegal_keys = {}) \/ ws = None
       /\ Call(c, IF ~existing /\ bundle_type \notin UPLOADED_TYPES
                  THEN Raise(r, "PreconditionViolation")
                  ELSE IF ~existing /\ illegal_keys # {}
                    THEN [Raise(r, "UsageError") EXCEPT !.named = illegal_keys]
                  ELSE r)

\* bundle_store.upload and model.save_bundle of upload_bundle; the bundle is
\* constructed under the uuid of construct_args, or under a fresh one, and an
\* uploaded bundle has no dependencies
Upload(c) ==
  LET r == cl[c]
      uuid == IF r.existing THEN r.bs ELSE AllBundleUuids[nbundles + 1]
      saved == Wrote(Wrote([r EXCEPT !.buuid = uuid], "blob", TRUE), "bundle", TRUE)
  IN /\ r.pc = "upload"
     /\ r.existing \/ nbundles < MaxBundles
     /\ bundles' = SaveBundle(uuid, r.name, {})
     /\ nbundles' = IF r.existing THEN nbundles ELSE nbundles + 1
     /\ cl' = [cl EXCEPT ![c] = ThenAddWorksheetItem(saved)]
     /\ UNCHANGED <<worksheets, groups, members, perms, nworksheets, ngroups, deleted>>

\* the uuids generated so far: a target names a bundle that has been constructed
GeneratedUuids == {AllBundleUuids[i] : i \in 1..nbundles}

\* derive_bundle
derive_bundle(c) ==
  \E user \in AnyUser, targets \in {{}, {"b1"}, {"b2"}, {"b3"}},
     metadata \in MetadataInputs, ws \in {None, "w1", "w2", DEFAULT_WORKSHEET_NAME} :
    LET illegal_keys == validate_user_metadata(metadata)
        r == [Idle EXCEPT !.pc = "derive", !.op = "derive_bundle", !.user = user,
                          !.ws = ws, !.name = "b", !.targets = targets,
                          !.metadata = metadata, !.legal = (illegal_keys = {})]
    IN /\ targets \subseteq GeneratedUuids
       /\ illegal_keys = {} \/ (ws = None /\ targets = {})
       /\ Call(c, IF illegal_keys # {}
                  THEN [Raise(r, "UsageError") EXCEPT !.named = illegal_keys]
                  ELSE r)

\* derive_bundle that records the new bundle among its own dependencies
DeriveOntoItself(c) ==
  LET r == cl[c]
      uuid == AllBundleUuids[nbundles + 1]
      saved == Wrote([r EXCEPT !.buuid = uuid], "bundle", TRUE)
  IN /\ r.pc = "derive"
     /\ nbundles < MaxBundles
     /\ bundles' = SaveBundle(uuid, r.name, r.targets \cup {uuid})
     /\ nbundles' = nbundles + 1
     /\ cl' = [cl EXCEPT ![c] = ThenAddWorksheetItem(saved)]
     /\ UNCHANGED <<worksheets, groups, members, perms, nworksheets, ngroups, deleted>>

\* model.save_bundle of derive_bundle
Derive(c) ==
  LET r == cl[c]
      uuid == AllBundleUuids[nbundles + 1]
      saved == Wrote([r EXCEPT !.buuid = uuid], "bundle", TRUE)
  IN /\ r.pc = "derive"
     /\ nbundles < MaxBundles
     /\ bundles' = SaveBundle(uuid, r.name, r.targets)
     /\ nbundles' = nbundles + 1
     /\ cl' = [cl EXCEPT ![c] = ThenAddWorksheetItem(saved)]
     /\ UNCHANGED <<worksheets, groups, members, perms, nworksheets, ngroups, deleted>>

\* update_bundle_metadata
update_bundle_metadata(c) ==
  \E user \in AnyUser, uuid \in {"b1", "b3"}, metadata \in MetadataInputs :
    Call(c, [Idle EXCEPT !.pc = "get_bundle_metadata",
                         !.op = "update_bundle_metadata", !.user = user,
                         !.bs = uuid, !.name = "b", !.metadata = metadata,
                         !.legal = (validate_user_metadata(metadata) = {})])

\* model.get_bundle and validate_user_metadata of update_bundle_metadata
GetBundleMetadata(c) ==
  LET r == cl[c]
      illegal_keys == validate_user_metadata(r.metadata)
  IN /\ r.pc = "get_bundle_metadata"
     /\ Read(c, IF r.bs \notin DOMAIN bundles THEN Raise(r, "UsageError")
                ELSE IF illegal_keys # {}
                  THEN [Raise(r, "UsageError") EXCEPT !.named = illegal_keys]
                ELSE [r EXCEPT !.pc = "update_bundle", !.buuid = r.bs])

\* model.update_bundle of update_bundle_metadata
UpdateMetadata(c) ==
  LET r == cl[c]
  IN /\ r.pc = "update_bundle"
     /\ bundles' = UpdateBundle(r.buuid, r.name)
     /\ cl' = [cl EXCEPT ![c] = Wrote(Return(r), "metadata", bundles' # bundles)]
     /\ UNCHANGED <<worksheets, groups, members, perms, nbundles, nworksheets,
                    ngroups, deleted>>

\* delete_bundle
delete_bundle(c) ==
  \E user \in AnyUser, uuid \in {"b1", "b2", "b3"}, force \in BOOLEAN :
    Call(c, [Idle EXCEPT !.pc = "get_children", !.op = "delete_bundle",
                         !.user = user, !.bs = uuid, !.force = force])

\* model.get_children of delete_bundle, and the error that names them
CheckChildren(c) ==
  LET r == cl[c]
      children == GetChildren(r.bs)
  IN /\ r.pc = "get_children"
     /\ Read(c, IF children # {} /\ ~r.force
                THEN [Raise(r, "UsageError") EXCEPT
                        !.named = children,
                        !.dependents = children \cup GetChildWorksheets(r.bs)]
                ELSE [r EXCEPT !.pc = "get_child_worksheets"])

\* model.get_child_worksheets of delete_bundle, and the error that names them
CheckChildWorksheets(c) ==
  LET r == cl[c]
      child_worksheets == GetChildWorksheets(r.bs)
  IN /\ r.pc = "get_child_worksheets"
     /\ Read(c, IF child_worksheets # {} /\ ~r.force
                THEN [Raise(r, "UsageError") EXCEPT
                        !.named = child_worksheets,
                        !.dependents = GetChildren(r.bs) \cup child_worksheets]
                ELSE [r EXCEPT !.pc = "delete_bundle_tree"])

\* model.delete_bundle_tree of delete_bundle
DeleteTree(c) ==
  LET r == cl[c]
      refused == DeleteTreeRefused(r.bs, r.force)
  IN /\ r.pc = "delete_bundle_tree"
     /\ bundles' = DeleteBundleTree(r.bs, r.force)
     /\ deleted' = IF refused \/ r.force \/ r.bs \notin DOMAIN bundles
                   THEN deleted ELSE deleted \cup {r.bs}
     /\ cl' = [cl EXCEPT ![c] =
                 IF refused
                 THEN [Raise(r, "UsageError") EXCEPT
                         !.named = GetChildren(r.bs) \cup GetChildWorksheets(r.bs),
                         !.dependents = GetChildren(r.bs) \cup GetChildWorksheets(r.bs)]
                 ELSE Wrote(Return(r), "bundle_deleted", bundles' # bundles)]
     /\ UNCHANGED <<worksheets, groups, members, perms, nbundles, nworksheets,
                    ngroups>>

(***************************************************************************)
(* Group methods.                                                          *)
(***************************************************************************)
\* new_group
new_group(c) ==
  \E user \in AnyUser :
    Call(c, authentication_required(user,
      [Idle EXCEPT !.pc = "create_group", !.op = "new_group", !.user = user]))

\* model.create_group of new_group
CreateGroupWrite(c) ==
  LET r == cl[c]
      uuid == AllGroupUuids[ngroups + 1]
  IN /\ r.pc = "create_group"
     /\ ngroups < MaxGroups
     /\ groups' = CreateGroup(uuid, r.user)
     /\ ngroups' = ngroups + 1
     /\ cl' = [cl EXCEPT ![c] = Wrote(Return([r EXCEPT !.guuid = uuid]), "groups", TRUE)]
     /\ UNCHANGED <<bundles, worksheets, members, perms, nbundles, nworksheets, deleted>>

\* rm_group
rm_group(c) ==
  \E user \in AnyUser, gs \in GroupSpecs :
    Call(c, authentication_required(user,
      [Idle EXCEPT !.pc = "group_managed_by", !.op = "rm_group", !.user = user,
                   !.gs = gs]))

\* rm_group that lets every manager of the group delete it
GroupManagedByAnyManager(c) ==
  LET r == cl[c]
      g == UniqueGroupManagedBy(r.gs, r.user)
      info == [r EXCEPT !.guuid = g, !.gowner = groups[g].owner]
  IN /\ r.pc = "group_managed_by"
     /\ Read(c,
          IF g = None THEN Raise(r, "UsageError")
          ELSE CASE r.op = "rm_group" -> [info EXCEPT !.pc = "delete_group"]
                 [] r.op = "add_user" ->
                      IF r.who = NoSuchUser \/ r.who = r.user
                      THEN Raise(info, "UsageError")
                      ELSE [info EXCEPT !.pc = "get_user_in_group"]
                 [] r.op = "rm_user" ->
                      IF r.who = NoSuchUser \/ r.who = info.gowner
                      THEN Raise(info, "UsageError")
                      ELSE [info EXCEPT !.pc = "get_user_in_group"])

\* unique_group_managed_by, shared by rm_group, add_user and rm_user, and the
\* checks each of them makes before its next store interaction
GroupManagedBy(c) ==
  LET r == cl[c]
      g == UniqueGroupManagedBy(r.gs, r.user)
      info == [r EXCEPT !.guuid = g, !.gowner = groups[g].owner]
  IN /\ r.pc = "group_managed_by"
     /\ Read(c,
          IF g = None THEN Raise(r, "UsageError")
          ELSE CASE r.op = "rm_group" ->
                      IF info.gowner # r.user THEN Raise(info, "UsageError")
                      ELSE [info EXCEPT !.pc = "delete_group"]
                 [] r.op = "add_user" ->
                      IF r.who = NoSuchUser \/ r.who = r.user
                      THEN Raise(info, "UsageError")
                      ELSE [info EXCEPT !.pc = "get_user_in_group"]
                 [] r.op = "rm_user" ->
                      IF r.who = NoSuchUser \/ r.who = info.gowner
                      THEN Raise(info, "UsageError")
                      ELSE [info EXCEPT !.pc = "get_user_in_group"])

\* model.delete_group of rm_group
DeleteGroupWrite(c) ==
  LET r == cl[c]
  IN /\ r.pc = "delete_group"
     /\ groups' = DeleteGroup(r.guuid)
     /\ members' = DeleteGroupMembers(r.guuid)
     /\ cl' = [cl EXCEPT ![c] = Wrote(Wrote(Return(r), "groups", groups' # groups),
                                      "members", members' # members)]
     /\ UNCHANGED <<bundles, worksheets, perms, nbundles, nworksheets, ngroups, deleted>>

\* add_user
add_user(c) ==
  \E user \in AnyUser, who \in Usernames, gs \in GroupSpecs, is_admin \in BOOLEAN :
    Call(c, authentication_required(user,
      [Idle EXCEPT !.pc = "group_managed_by", !.op = "add_user", !.user = user,
                   !.who = who, !.gs = gs, !.is_admin = is_admin]))

\* rm_user
rm_user(c) ==
  \E user \in AnyUser, who \in Usernames, gs \in GroupSpecs :
    Call(c, authentication_required(user,
      [Idle EXCEPT !.pc = "group_managed_by", !.op = "rm_user", !.user = user,
                   !.who = who, !.gs = gs]))

\* add_user that does not look at the rows it read
GetUserInGroupUnread(c) ==
  LET r == cl[c]
      n == CountUserInGroup(r.who, r.guuid)
  IN /\ r.pc = "get_user_in_group"
     /\ Read(c, IF r.op = "rm_user"
                THEN IF n = 0 THEN Return(r)
                     ELSE [r EXCEPT !.nold = n, !.pc = "delete_user_in_group"]
                ELSE [r EXCEPT !.pc = "add_user_in_group", !.nold = n])

\* model.batch_get_user_in_group of add_user and rm_user; members[0] is any
\* of the rows read
GetUserInGroup(c) ==
  LET r == cl[c]
      rows == {m \in BagToSet(members) : m.user = r.who /\ m.group = r.guuid}
      n == CountUserInGroup(r.who, r.guuid)
  IN /\ r.pc = "get_user_in_group"
     /\ IF n = 0
        THEN Read(c, IF r.op = "rm_user" THEN Return(r)
                     ELSE [r EXCEPT !.pc = "add_user_in_group", !.nold = 0])
        ELSE \E member \in rows :
               LET read == [r EXCEPT !.nold = n, !.mflag = member.is_admin]
               IN Read(c,
                    IF r.op = "rm_user" THEN [read EXCEPT !.pc = "delete_user_in_group"]
                    ELSE IF r.who = r.gowner THEN Raise(read, "UsageError")
                    ELSE IF member.is_admin # r.is_admin
                      THEN [read EXCEPT !.pc = "update_user_in_group"]
                    ELSE Return(read))

\* model.add_user_in_group of add_user
AddUserWrite(c) ==
  LET r == cl[c]
  IN /\ r.pc = "add_user_in_group"
     /\ members' = AddUserInGroup(r.who, r.guuid, r.is_admin)
     /\ cl' = [cl EXCEPT ![c] =
                 Wrote([Return(r) EXCEPT !.operation = "Added"], "members", TRUE)]
     /\ UNCHANGED <<bundles, worksheets, groups, perms, nbundles, nworksheets,
                    ngroups, deleted>>

\* model.update_user_in_group of add_user
UpdateUserWrite(c) ==
  LET r == cl[c]
  IN /\ r.pc = "update_user_in_group"
     /\ members' = UpdateUserInGroup(r.who, r.guuid, r.is_admin)
     /\ cl' = [cl EXCEPT ![c] =
                 Wrote([Return(r) EXCEPT !.operation = "Modified"], "members",
                       members' # members)]
     /\ UNCHANGED <<bundles, worksheets, groups, perms, nbundles, nworksheets,
                    ngroups, deleted>>

\* model.delete_user_in_group of rm_user
DeleteUserWrite(c) ==
  LET r == cl[c]
  IN /\ r.pc = "delete_user_in_group"
     /\ members' = DeleteUserInGroup(r.who, r.guuid)
     /\ cl' = [cl EXCEPT ![c] = Wrote(Return(r), "members", members' # members)]
     /\ UNCHANGED <<bundles, worksheets, groups, perms, nbundles, nworksheets,
                    ngroups, deleted>>

(***************************************************************************)
(* The system.                                                             *)
(***************************************************************************)
\* The client is constructed over a store that is already in use: user u1
\* owns worksheet w1 and group g1, bundle b2 depends on b1, w1 lists one of
\* the two bundles, u2 is or is not a member of g1, g1 holds one of the
\* levels on w1 (in one row, or in several rows left by concurrent
\* set_worksheet_perm calls), and u1 may own further groups that hold no level.
InitStore(levels, listed, member_rows, more_groups, copies, more_items) ==
  /\ bundles = ("b1" :> [name |-> "a", deps |-> {}])
               @@ ("b2" :> [name |-> "b", deps |-> {"b1"}])
  /\ \E b \in listed :
       LET items == <<Item(b, bundles[b].name, "bundle")>> \o more_items
       IN worksheets = ("w1" :> [name |-> "ws", owner |-> "u1", items |-> items,
                                 last_item_id |-> Len(items)])
  /\ \E more \in more_groups :
       /\ groups = [g \in {"g1"} \cup more |-> [owner |-> "u1"]]
       /\ ngroups = 1 + Cardinality(more)
  /\ \E rows \in member_rows : members = SetToBag(rows)
  /\ \E level \in levels, n \in copies :
       perms = IF level = GROUP_OBJECT_PERMISSION_NONE THEN EmptyBag
               ELSE [row \in {[group |-> "g1", ws |-> "w1", level |-> level]} |-> n]
  /\ nbundles = 2
  /\ nworksheets = 1
  /\ cl = [c \in Clients |-> Idle]
  /\ deleted = {}

Levels ==
  {GROUP_OBJECT_PERMISSION_NONE, GROUP_OBJECT_PERMISSION_READ,
   GROUP_OBJECT_PERMISSION_ALL}
PlainMember == {[user |-> "u2", group |-> "g1", is_admin |-> FALSE]}

CoOwner == {[user |-> "u2", group |-> "g1", is_admin |-> TRUE]}

Init == InitStore(Levels, {"b1", "b2"}, {{}, PlainMember}, {{}}, {1}, << >>)
InitShared == InitStore(Levels, {"b1"}, {PlainMember}, {{}}, {1}, << >>)
\* u1 owns a second group as well, which holds no level on w1
InitPerm == InitStore(Levels, {"b1"}, {PlainMember}, {{}, {"g2"}}, {1}, << >>)
\* u2 is no member, a plain member or a co-owner of g1
InitGroup ==
  InitStore({GROUP_OBJECT_PERMISSION_READ}, {"b1"}, {{}, PlainMember, CoOwner},
            {{}}, {1}, << >>)
\* set_worksheet_perm calls that ran concurrently have left two rows for
\* (g1, w1)
InitRepair ==
  InitStore({GROUP_OBJECT_PERMISSION_READ, GROUP_OBJECT_PERMISSION_ALL}, {"b1"},
            {PlainMember}, {{}, {"g2"}}, {1, 2}, << >>)

\* w1 lists b1, a text item and b2
InitRead == InitStore(Levels, {"b1"}, {PlainMember}, {{}}, {1},
                      <<Item(None, "note", ""), Item("b2", "b", "bundle")>>)

\* the steps of the worksheet methods up to the permission gate
Gate(c) == GetWorksheetUuid(c) \/ NewDefaultWorksheet(c) \/ Check(c)

\* every method, called by one client
Next ==
  \E c \in {"c1"} :
    \/ upload_bundle(c) \/ Upload(c)
    \/ derive_bundle(c) \/ Derive(c)
    \/ update_bundle_metadata(c) \/ GetBundleMetadata(c) \/ UpdateMetadata(c)
    \/ delete_bundle(c) \/ CheckChildren(c) \/ CheckChildWorksheets(c) \/ DeleteTree(c)
    \/ new_worksheet(c) \/ SaveNewWorksheet(c)
    \/ Gate(c)
    \/ add_worksheet_item(c) \/ GetBundle(c) \/ AddItem(c)
    \/ update_worksheet(c) \/ Expand(c) \/ UpdateItems(c)
    \/ rename_worksheet(c) \/ RenameWrite(c)
    \/ delete_worksheet(c) \/ DeleteWrite(c)
    \/ set_worksheet_perm(c) \/ GetPermission(c) \/ SetPermission(c)
    \/ new_group(c) \/ CreateGroupWrite(c)
    \/ rm_group(c) \/ DeleteGroupWrite(c)
    \/ add_user(c) \/ rm_user(c) \/ GroupManagedBy(c) \/ GetUserInGroup(c)
    \/ AddUserWrite(c) \/ UpdateUserWrite(c) \/ DeleteUserWrite(c)

Spec == Init /\ [][Next]_vars

\* two clients edit worksheets
NextWorksheet ==
  \E c \in Clients :
    \/ Gate(c)
    \/ add_worksheet_item(c) \/ GetBundle(c) \/ AddItem(c)
    \/ update_worksheet(c) \/ Expand(c) \/ UpdateItems(c)

SpecWorksheet == InitShared /\ [][NextWorksheet]_vars

\* two clients use the methods behind the permission gate
NextGate ==
  \E c \in Clients :
    \/ Gate(c)
    \/ add_worksheet_item(c) \/ GetBundle(c) \/ AddItem(c)
    \/ update_worksheet(c) \/ Expand(c) \/ UpdateItems(c)
    \/ rename_worksheet(c) \/ RenameWrite(c)
    \/ delete_worksheet(c) \/ DeleteWrite(c)
    \/ set_worksheet_perm(c) \/ GetPermission(c) \/ SetPermission(c)

SpecGate == InitShared /\ [][NextGate]_vars

\* two clients create, list and delete bundles
NextBundle ==
  \E c \in Clients :
    \/ derive_bundle(c) \/ Derive(c)
    \/ delete_bundle(c) \/ CheckChildren(c) \/ CheckChildWorksheets(c) \/ DeleteTree(c)
    \/ Gate(c)
    \/ add_worksheet_item(c) \/ GetBundle(c) \/ AddItem(c)

SpecBundle == InitShared /\ [][NextBundle]_vars

\* get_worksheet_info next to delete_bundle
NextRead ==
  \E c \in Clients :
    \/ get_worksheet_info(c) \/ GetWorksheetUuid(c) \/ NewDefaultWorksheet(c)
    \/ CheckRead(c) \/ BatchGetBundles(c)
    \/ delete_bundle(c) \/ CheckChildren(c) \/ CheckChildWorksheets(c) \/ DeleteTree(c)

SpecRead == InitRead /\ [][NextRead]_vars

\* the three methods that create and delete bundles, by two clients; Gate,
\* GetBundle and AddItem are the add_worksheet_item that ends an upload_bundle
\* or derive_bundle
NextDependencies ==
  \E c \in Clients :
    \/ upload_bundle(c) \/ Upload(c)
    \/ derive_bundle(c) \/ Derive(c)
    \/ delete_bundle(c) \/ CheckChildren(c) \/ CheckChildWorksheets(c) \/ DeleteTree(c)
    \/ Gate(c) \/ GetBundle(c) \/ AddItem(c)

SpecDependencies == InitShared /\ [][NextDependencies]_vars

\* two clients set permissions
NextPerm ==
  \E c \in Clients :
    \/ Gate(c)
    \/ set_worksheet_perm(c) \/ GetPermission(c) \/ SetPermission(c)

SpecPerm == InitPerm /\ [][NextPerm]_vars

\* set_worksheet_perm over a store that may hold two rows for a pair
SpecRepair == InitRepair /\ [][NextPerm]_vars

\* the steps of the group methods
GroupSteps(c) ==
  \/ CreateGroupWrite(c) \/ GroupManagedBy(c) \/ DeleteGroupWrite(c)
  \/ GetUserInGroup(c) \/ AddUserWrite(c) \/ UpdateUserWrite(c)
  \/ DeleteUserWrite(c)

\* two clients manage groups
NextGroup ==
  \E c \in Clients :
    \/ new_group(c) \/ rm_group(c) \/ add_user(c) \/ rm_user(c)
    \/ GroupSteps(c)

SpecGroup == InitGroup /\ [][NextGroup]_vars

\* no call is in progress
Quiet == \A c \in Clients : cl[c].pc \in {"idle", "done"}

\* two clients manage groups, one call after the other
NextGroupInTurn ==
  \E c \in Clients :
    \/ Quiet /\ (new_group(c) \/ rm_group(c) \/ add_user(c) \/ rm_user(c))
    \/ GroupSteps(c)

SpecGroupInTurn == InitGroup /\ [][NextGroupInTurn]_vars

(***************************************************************************)
(* Properties.                                                             *)
(***************************************************************************)
\* client c takes the step that ends its call
Ends(c) == cl[c].pc # "done" /\ cl'[c].pc = "done"
\* the call of c got through check_has_full_permission
Passed(r) == r.checked /\ r.result # "AuthorizationError"

\* C1: an update_worksheet that reaches the store with a (last_item_id, length)
\* other than the stored one ends in a UsageError and leaves every worksheet's
\* items and stamp as they were.
C1_StaleStampRejected ==
  [][\A c \in Clients :
       LET r == cl[c]
       IN (/\ r.pc = "update_worksheet"
           /\ Ends(c)
           /\ r.wuuid \in DOMAIN worksheets
           /\ r.stamp # Stamp(r.wuuid))
          => (cl'[c].result = "UsageError" /\ worksheets' = worksheets)]_vars

\* a caller with full permission has had a stale update refused
C1_Witness ==
  \E c \in Clients :
    LET r == cl[c]
    IN /\ r.op = "update_worksheet" /\ r.pc = "done" /\ Passed(r)
       /\ r.result = "UsageError" /\ r.wrote = {}
       /\ r.stamp # Stamp(r.wuuid)

\* C2: of two permitted update_worksheet calls that carry the same stamp, the
\* stored one when each began, exactly one succeeds and the other gets the
\* UsageError; the stored items are the winner's.
BothUpdated(c, d) ==
  /\ c # d
  /\ cl[c].op = "update_worksheet" /\ cl[d].op = "update_worksheet"
  /\ cl[c].pc = "done" /\ cl[d].pc = "done"
  /\ Passed(cl[c]) /\ Passed(cl[d])
  /\ cl[c].wuuid = cl[d].wuuid
  /\ cl[c].fresh /\ cl[d].fresh /\ cl[c].stamp = cl[d].stamp
C2_ExactlyOneUpdateWins ==
  \A c, d \in Clients :
    BothUpdated(c, d) =>
      \/ /\ cl[c].result = "ok" /\ cl[d].result = "UsageError"
         /\ worksheets[cl[c].wuuid].items = cl[c].canon
      \/ /\ cl[d].result = "ok" /\ cl[c].result = "UsageError"
         /\ worksheets[cl[d].wuuid].items = cl[d].canon

\* two such calls have ended, with different lists submitted
C2_Witness ==
  \E c, d \in Clients :
    /\ BothUpdated(c, d)
    /\ cl[c].canon # cl[d].canon
    /\ cl[c].result = "ok"
    /\ cl[d].result = "UsageError"

\* C3: last_item_id of a worksheet never decreases, and a successful
\* update_worksheet or add_worksheet_item raises it, so that the stamp after
\* it differs from every stamp before it.
Mutates(c, w) ==
  /\ cl[c].pc \in {"update_worksheet", "add_item"}
  /\ Ends(c)
  /\ cl'[c].result = "ok"
  /\ cl[c].wuuid = w
C3_StampAdvances ==
  [][\A w \in DOMAIN worksheets \cap DOMAIN worksheets' :
       /\ worksheets'[w].last_item_id >= worksheets[w].last_item_id
       /\ (worksheets'[w].items # worksheets[w].items \/ \E c \in Clients : Mutates(c, w))
            => /\ worksheets'[w].last_item_id > worksheets[w].last_item_id
               /\ Stamp(w)' # Stamp(w)]_vars

\* an update that puts a list of the same length again has succeeded
C3_Witness ==
  \E c \in Clients :
    LET r == cl[c]
    IN /\ r.op = "update_worksheet" /\ r.pc = "done" /\ r.result = "ok"
       /\ Len(r.canon) = r.stamp[2]
       /\ worksheets[r.wuuid].last_item_id > r.stamp[1]

\* the methods that create, rename, delete or mutate stored state
MutatingMethods ==
  {"upload_bundle", "derive_bundle", "update_bundle_metadata", "delete_bundle",
   "new_worksheet", "add_worksheet_item", "update_worksheet", "rename_worksheet",
   "delete_worksheet", "new_group", "rm_group", "add_user", "rm_user",
   "set_worksheet_perm"}

\* C4: a call of a mutating method made with no authenticated user fails
\* (with AuthorizationError, the claim adds) and changes nothing in the store.
C4_UnauthenticatedRejected ==
  \A c \in Clients :
    LET r == cl[c]
    IN (r.op \in MutatingMethods /\ r.user = NoUser) =>
         /\ r.wrote = {}
         /\ r.pc = "done" => r.result # "ok"

\* the worksheet methods behind check_has_full_permission
GatedMethods ==
  {"update_worksheet", "add_worksheet_item", "rename_worksheet",
   "delete_worksheet", "set_worksheet_perm"}
\* what check_has_full_permission saw of the acting user
Entitled(r) == r.checked /\ (r.was_owner \/ r.in_all_group)
Denied(r) == r.checked /\ ~r.was_owner /\ ~r.in_all_group

\* C5, as stated: a gated method that has ended changed the store only if the
\* permission check saw the owner or a member of a group with level ALL, and
\* a call that check_has_full_permission denied raised AuthorizationError and
\* wrote nothing.
C5_WritesOnlyWhenEntitled ==
  \A c \in Clients :
    LET r == cl[c]
    IN (r.op \in GatedMethods /\ r.pc = "done") =>
         /\ r.wrote # {} => Entitled(r)
         /\ Denied(r) => (r.result = "AuthorizationError" /\ r.wrote = {})

\* C5, amended: the only change a gated method makes before
\* check_has_full_permission is the creation of the default worksheet when the
\* default name does not resolve; it writes items, a name, a deletion or
\* permission rows only if check_has_full_permission saw the owner or a member
\* of a group with level ALL, and a call it denied ends at once with
\* AuthorizationError and has written nothing.
C5_CoreWritesOnlyWhenEntitled ==
  \A c \in Clients :
    LET r == cl[c]
    IN r.op \in GatedMethods =>
         /\ r.wrote \ {"default_worksheet"} # {} => Entitled(r)
         /\ (~r.checked /\ r.wrote # {}) =>
              (r.ws = DEFAULT_WORKSHEET_NAME /\ r.wrote = {"default_worksheet"})
         /\ Denied(r) =>
              (r.pc = "done" /\ r.result = "AuthorizationError" /\ r.wrote = {})

\* one call was let through as a group member and wrote, another was denied
C5_Witness ==
  \E c, d \in Clients :
    /\ cl[c].op \in GatedMethods /\ cl[d].op \in GatedMethods
    /\ Denied(cl[c]) /\ cl[c].pc = "done" /\ cl[c].result = "AuthorizationError"
    /\ Entitled(cl[d]) /\ ~cl[d].was_owner /\ cl[d].wrote # {}

\* C6: an upload_bundle or derive_bundle given a worksheet that has raised
\* has persisted no bundle.
C6_AllOrNothing ==
  \A c \in Clients :
    LET r == cl[c]
    IN (/\ r.op \in {"upload_bundle", "derive_bundle"}
        /\ r.ws # None
        /\ r.pc = "done"
        /\ r.result # "ok")
       => ("bundle" \notin r.wrote /\ r.buuid \notin DOMAIN bundles)

\* C7: a delete_bundle without force that raised UsageError named every
\* bundle and every worksheet that depended on the bundle, and deleted
\* nothing.
C7_NamesEveryDependent ==
  \A c \in Clients :
    LET r == cl[c]
    IN (/\ r.op = "delete_bundle"
        /\ ~r.force
        /\ r.pc = "done"
        /\ r.result = "UsageError")
       => (r.named = r.dependents /\ r.wrote = {})

\* C8: no dependency saved by a derive_bundle, and no item added by an
\* add_worksheet_item, names a bundle that a delete_bundle without force
\* deleted while that call was running.
C8_DeleteLeavesNoReference ==
  \A c \in Clients :
    LET r == cl[c]
    IN \A b \in deleted \ r.deleted_before :
         /\ (r.op = "derive_bundle" /\ "bundle" \in r.wrote) =>
              r.buuid \notin GetChildren(b)
         /\ (r.op = "add_worksheet_item" /\ "items" \in r.wrote /\ r.buuid = b) =>
              r.wuuid \notin GetChildWorksheets(b)

\* C9: there is at most one permission row per (group, worksheet) pair, and
\* no row holds level NONE.
C9_OneRowPerPair ==
  /\ \A row \in BagToSet(perms) : CopiesIn(row, perms) = 1
  /\ \A g \in DOMAIN groups, w \in DOMAIN worksheets : CountPermission(g, w) <= 1
  /\ \A row \in BagToSet(perms) : row.level # GROUP_OBJECT_PERMISSION_NONE

\* the rows of the other (group, worksheet) pairs
OtherRows(g, w) == BagSelect(perms, LAMBDA row : ~(row.group = g /\ row.ws = w))

\* C10: when a set_worksheet_perm with level NONE returns, the pair has no
\* row and its group confers level NONE on the worksheet, the rows of every
\* other pair are as they were, and the rows are untouched altogether when the
\* pair had no row.
C10_NoneDeletesRow ==
  [][\A c \in Clients, g \in GroupUuidSpace, w \in WorksheetUuidSpace :
       (/\ cl'[c].op = "set_worksheet_perm"
        /\ Ends(c)
        /\ cl'[c].result = "ok"
        /\ cl'[c].pname = "none"
        /\ cl'[c].guuid = g
        /\ cl'[c].wuuid = w)
       => /\ CountPermission(g, w)' = 0
          /\ GroupLevel(g, w)' = GROUP_OBJECT_PERMISSION_NONE
          /\ OtherRows(g, w)' = OtherRows(g, w)
          /\ CountPermission(g, w) = 0 => perms' = perms]_vars

\* a set_worksheet_perm with level NONE has deleted the row it found
C10_Witness ==
  \E c \in Clients :
    LET r == cl[c]
    IN /\ r.op = "set_worksheet_perm" /\ r.pc = "done" /\ r.result = "ok"
       /\ r.pname = "none" /\ r.nold > 0 /\ "perms" \in r.wrote
       /\ CountPermission(r.guuid, r.wuuid) = 0

\* C11: no membership row names the owner of its group, and an add_user or
\* rm_user by a manager of the group that targets the owner has raised
\* UsageError and written nothing.
C11_OwnerNeverARow ==
  /\ \A row \in BagToSet(members) :
       row.group \in DOMAIN groups => row.user # groups[row.group].owner
  /\ \A c \in Clients :
       LET r == cl[c]
       IN (/\ r.op \in {"add_user", "rm_user"}
           /\ r.pc = "done"
           /\ r.gowner # None
           /\ r.who = r.gowner)
          => (r.result = "UsageError" /\ r.wrote = {})

\* the rows of the other (user, group) pairs
OtherMembers(user, g) ==
  BagSelect(members, LAMBDA row : ~(row.user = user /\ row.group = g))
\* the is_admin flags stored for the pair
Flags(user, g) ==
  {row.is_admin : row \in {m \in BagToSet(members) : m.user = user /\ m.group = g}}
\* d has made the call that c makes, and it returned
SameAddUser(c, d) ==
  /\ c # d
  /\ cl[d].op = "add_user" /\ cl[d].pc = "done" /\ cl[d].result = "ok"
  /\ cl[d].user = cl[c].user /\ cl[d].who = cl[c].who
  /\ cl[d].gs = cl[c].gs /\ cl[d].is_admin = cl[c].is_admin

\* C12: with calls made one after the other, an add_user that returns has
\* inserted exactly one row and reports 'Added' when the pair had no row, has
\* set the flag of the one row and reports 'Modified' when the row had the
\* other flag, and has left the table as it was and reports nothing when the
\* row had the same flag; an add_user that repeats a returned call leaves the
\* table as it was.
C12_AddUserIdempotent ==
  [][\A c \in Clients, g \in GroupUuidSpace, who \in KnownUsers, flag \in BOOLEAN :
       (/\ cl[c].op = "add_user"
        /\ Ends(c)
        /\ cl[c].who = who
        /\ cl[c].is_admin = flag
        /\ cl'[c].guuid = g)
       => /\ cl'[c].result = "ok" =>
               /\ OtherMembers(who, g)' = OtherMembers(who, g)
               /\ CountUserInGroup(who, g)' = 1
               /\ Flags(who, g)' = {flag}
               /\ CountUserInGroup(who, g) = 0 => cl'[c].operation = "Added"
               /\ Flags(who, g) = {~flag} => cl'[c].operation = "Modified"
               /\ Flags(who, g) = {flag} =>
                    (members' = members /\ cl'[c].operation = None)
          /\ (\E d \in Clients : SameAddUser(c, d)) => members' = members]_vars

\* an add_user has added a row and the same call made again has returned
\* without a report
C12_Witness ==
  \E c, d \in Clients :
    /\ SameAddUser(c, d)
    /\ cl[c].op = "add_user" /\ cl[c].pc = "done" /\ cl[c].result = "ok"
    /\ cl[d].operation = "Added" /\ cl[c].operation = None
    /\ cl[c].wrote = {}

\* C17: a group leaves the store only in the step that ends an rm_group of its
\* owner, and an rm_group of an authenticated user whom unique_group_managed_by
\* did not find to be the owner of the group raises UsageError and leaves
\* groups and membership rows as they were.
C17_OnlyOwnerDeletes ==
  [][/\ \A g \in DOMAIN groups :
          g \notin DOMAIN groups' =>
            \E c \in Clients : /\ cl[c].op = "rm_group" /\ Ends(c)
                                /\ cl[c].gs = g
                                /\ cl[c].user = groups[g].owner
     /\ \A c \in Clients :
          (/\ cl[c].op = "rm_group"
           /\ Ends(c)
           /\ cl[c].user # NoUser
           /\ cl'[c].gowner # cl[c].user)
          => /\ cl'[c].result = "UsageError"
             /\ cl'[c].wrote = {}
             /\ groups' = groups
             /\ members' = members]_vars

\* a co-owner's rm_group has been refused
C17_Witness ==
  \E c \in Clients :
    LET r == cl[c]
    IN /\ r.op = "rm_group" /\ r.pc = "done" /\ r.result = "UsageError"
       /\ r.guuid \in DOMAIN groups
       /\ groups[r.guuid].owner # r.user
       /\ IsAdminRow(r.user, r.guuid)

\* an upload_bundle of an uploadable type whose metadata holds an illegal key
IllegalUpload(r) ==
  /\ r.op = "upload_bundle"
  /\ r.bundle_type \in UPLOADED_TYPES
  /\ r.metadata \ LegalKeys # {}

C20_DuplicatesSurfaced ==
  \A c \in Clients :
    LET r == cl[c]
    IN (/\ r.op = "set_worksheet_perm" /\ r.pc = "done"
        /\ r.nold > 1 /\ r.level # GROUP_OBJECT_PERMISSION_NONE) =>
         (r.result # "ok" /\ "perms" \notin r.wrote)

\* the worksheets that carry the reserved default name
DefaultWorksheets ==
  {w \in DOMAIN worksheets : worksheets[w].name = DEFAULT_WORKSHEET_NAME}

\* C14: with no renames and no deletes, at most one worksheet carries the
\* default name, and exactly one once a resolution of the default name has
\* returned.
C14_OneDefaultWorksheet ==
  /\ Cardinality(DefaultWorksheets) <= 1
  /\ (\E c \in Clients : /\ cl[c].ws = DEFAULT_WORKSHEET_NAME
                          /\ cl[c].wuuid # None) =>
       Cardinality(DefaultWorksheets) = 1

\* the uuids a set of bundles depends on, directly or through n further edges
RECURSIVE Ancestors(_, _)
Ancestors(S, n) ==
  IF n = 0 THEN S
  ELSE Ancestors(S \cup UNION {bundles[b].deps : b \in S \cap DOMAIN bundles}, n - 1)

DependsOn(b) == Ancestors(bundles[b].deps, Cardinality(DOMAIN bundles))

AddsItem(c) == cl[c].op = "add_worksheet_item" /\ cl[c].pc = "add_item" /\ cl'[c].pc = "done"

\* worksheet w loses an item, or an item changes its position
LosesItem(w) ==
  /\ w \in DOMAIN worksheets /\ w \in DOMAIN worksheets'
  /\ \/ Len(worksheets'[w].items) < Len(worksheets[w].items)
     \/ \E i \in DOMAIN worksheets[w].items :
          worksheets'[w].items[i] # worksheets[w].items[i]

\* C18: the write of add_worksheet_item returns normally and, on a worksheet
\* that is still stored, leaves what an update_worksheet with the stored
\* version and the stored items followed by one bundle item for the resolved
\* uuid leaves; and a worksheet loses an item or an item's position only by a
\* successful update_worksheet that submitted the version stored at that moment,
\* so an update never drops an item added after the version it submitted.
C18_AddAppendsOne ==
  [][\A c \in Clients :
       /\ AddsItem(c) =>
            LET w == cl[c].wuuid
                item == Item(cl[c].buuid, cl[c].bs, "bundle")
            IN /\ cl'[c].result = "ok"
               /\ w \in DOMAIN worksheets =>
                    /\ worksheets'[w].items = Append(worksheets[w].items, item)
                    /\ worksheets' = UpdateWorksheet(w, Stamp(w)[1], Stamp(w)[2],
                                                    Append(worksheets[w].items, item))
       /\ \A w \in DOMAIN worksheets :
            (LosesItem(w) /\ cl'[c] # cl[c]) =>
              /\ cl[c].op = "update_worksheet" /\ cl'[c].result = "ok"
              /\ cl[c].wuuid = w /\ cl[c].stamp = Stamp(w)
  ]_vars

\* an add_worksheet_item and an update_worksheet of two clients have both
\* written the same worksheet, and the added item is the last one
C18_Witness ==
  \E c, d \in Clients :
    /\ cl[c].op = "add_worksheet_item" /\ cl[c].result = "ok" /\ "items" \in cl[c].wrote
    /\ cl[d].op = "update_worksheet" /\ cl[d].result = "ok" /\ "items" \in cl[d].wrote
    /\ cl[c].wuuid = cl[d].wuuid /\ cl[c].wuuid \in DOMAIN worksheets
    /\ LET items == worksheets[cl[c].wuuid].items
       IN Len(items) > 1 /\ items[Len(items)] = Item(cl[c].buuid, cl[c].bs, "bundle")

\* C19: when update_worksheet expands its items it goes on to the permission
\* check, and turns an item without a bundle spec into a text item with the
\* given value, an item whose spec does not resolve into a text item (no
\* bundle) with an empty type and the given value or else the error message,
\* and an item whose spec resolves into an item of the resolved uuid.
C19_ExpandedItems ==
  [][\A c \in Clients :
       (cl[c].pc = "expand" /\ cl'[c].pc # "expand") =>
         /\ cl'[c].pc = "check"
         /\ DOMAIN cl'[c].canon = DOMAIN cl[c].items
         /\ \A i \in DOMAIN cl[c].items :
              LET item == cl[c].items[i]
                  uuid == CanonBundleUuid(item.b)
                  stored == cl'[c].canon[i]
              IN /\ item.b = None => (stored.b = None /\ stored.v = OrEmpty(item.v))
                 /\ (item.b # None /\ uuid = None) =>
                      stored = Item(None, IF item.v = None THEN "not found" ELSE item.v, "")
                 /\ (item.b # None /\ uuid # None) => stored.b = uuid
  ]_vars

\* C16: a get_worksheet_info whose caller holds at least level READ on a stored
\* worksheet passes check_has_read_permission; from there the call returns
\* normally whichever listed bundles are stored, with one item per item of
\* the worksheet it read, in the same order and with the same type: no bundle
\* info for a text item, the full info of a bundle that is stored, and a dict
\* with only the uuid for a bundle that is not.
C16_ListingToleratesOrphans ==
  [][\A c \in Clients :
       /\ (/\ cl[c].pc = "check_read" /\ cl'[c].pc # "check_read"
           /\ cl[c].wuuid \in DOMAIN worksheets
           /\ EffectiveLevel(cl[c].user, cl[c].wuuid) >= GROUP_OBJECT_PERMISSION_READ) =>
            /\ cl'[c].pc = "batch_get_bundles"
            /\ cl'[c].worksheet_items = worksheets[cl[c].wuuid].items
       /\ (cl[c].pc = "batch_get_bundles" /\ cl'[c].pc # "batch_get_bundles") =>
            /\ cl'[c].pc = "done" /\ cl'[c].result = "ok"
            /\ DOMAIN cl'[c].info_items = DOMAIN cl[c].worksheet_items
            /\ \A i \in DOMAIN cl[c].worksheet_items :
                 LET item == cl[c].worksheet_items[i]
                     bundle_info == cl'[c].info_items[i].bundle_info
                 IN /\ cl'[c].info_items[i].t = item.t
                    /\ IF item.b = None THEN DOMAIN bundle_info = {}
                       ELSE IF item.b \in DOMAIN bundles
                         THEN /\ DOMAIN bundle_info = DOMAIN BundleInfo(item.b)
                              /\ bundle_info = BundleInfo(item.b)
                       ELSE DOMAIN bundle_info = {"uuid"} /\ bundle_info.uuid = item.b
  ]_vars

\* a user who is not the owner has listed a worksheet with a text item, a
\* stored bundle and a bundle deleted by a forced delete_bundle
C16_Witness ==
  \E c, d \in Clients :
    LET r == cl[c]
    IN /\ r.op = "get_worksheet_info" /\ r.pc = "done" /\ r.result = "ok"
       /\ r.wuuid \in DOMAIN worksheets /\ worksheets[r.wuuid].owner # r.user
       /\ cl[d].op = "delete_bundle" /\ cl[d].force /\ "bundle_deleted" \in cl[d].wrote
       /\ \E i, j, k \in DOMAIN r.info_items :
            /\ DOMAIN r.info_items[i].bundle_info = {}
            /\ DOMAIN r.info_items[j].bundle_info = {"uuid"}
            /\ r.info_items[j].bundle_info.uuid = cl[d].bs
            /\ "metadata" \in DOMAIN r.info_items[k].bundle_info

\* C21: the membership table holds at most one row for every (user, group)
\* pair.
C21_OneRowPerMember ==
  \A user \in KnownUsers, g \in GroupUuidSpace : CountUserInGroup(user, g) <= 1

=============================================================================
